---------------------------- MODULE Spec2Model ----------------------------
(***************************************************************************)
(* keydisp: a low-level keyboard hook whose callback (the capture          *)
(* dispatcher of main.rs) turns key and character events into display      *)
(* characters, hands them over an mpsc channel to a broadcaster thread,    *)
(* which writes each one to every websocket client; an acceptor thread     *)
(* appends new clients to the shared, mutex-guarded client vector.         *)
(* windows/mod.rs holds a second hook, which looks keys up in a table and  *)
(* decodes ToUnicode's code units itself before calling its callback.      *)
(*                                                                         *)
(* A char is modelled by its Unicode scalar value, a u16 code unit by its  *)
(* value, a Scancode by its variant name, Option<T> by a sequence of       *)
(* length 0 (None) or 1 (Some).                                            *)
(***************************************************************************)
EXTENDS Integers, Sequences, FiniteSets, TLC

None == << >>
Some(x) == << x >>

(***************************************************************************)
(* Bounds of the model.                                                    *)
(*   MaxWindow    : foreground windows (HWND values) are 1 .. MaxWindow    *)
(*   MaxEvents    : hook notifications in a behaviour of SpecHook          *)
(*   MaxKeyEvents : hook notifications in a behaviour of SpecKeys          *)
(*   MaxNetEvents : hook notifications in a behaviour of Spec              *)
(*   MaxSinks     : connections the listener sees in a behaviour of Spec   *)
(*   MaxStallEvents, MaxStallSinks : the same two, in SpecStall            *)
(*   MaxPairs     : surrogate pairs of one decoder input (SpecDecoder)     *)
(*   MaxUnits     : code units of one decoder input (SpecUnits)            *)
(*   MaxCharEvents: hook notifications in a behaviour of SpecChars         *)
(*   MaxPoisonEvents, MaxPoisonSinks : notifications and connections in a  *)
(*                  behaviour of SpecPoison                                *)
(*   MaxCodeEvents: hook notifications in a behaviour of SpecCodes         *)
(*   MaxGlyphEvents: hook notifications in a behaviour of SpecGlyphs       *)
(*   MaxLiveEvents, MaxLiveSinks : notifications and connections in a      *)
(*                  behaviour of SpecLive                                  *)
(*   MaxOrderEvents: hook notifications in a behaviour of SpecOrder        *)
(*   MaxCapsEvents: hook notifications in a behaviour of SpecCaps          *)
(***************************************************************************)
MaxWindow == 2
MaxEvents == 4
MaxKeyEvents == 5
MaxNetEvents == 4
MaxSinks == 2
MaxStallEvents == 3
MaxStallSinks == 1
MaxPairs == 2
MaxUnits == 4
MaxCharEvents == 3
MaxPoisonEvents == 2
MaxPoisonSinks == 2
MaxCodeEvents == 3
MaxGlyphEvents == 4
MaxLiveEvents == 2
MaxLiveSinks == 2
MaxOrderEvents == 3
MaxCapsEvents == 3

Windows == 1 .. MaxWindow

(***************************************************************************)
(* Program constants.                                                      *)
(***************************************************************************)
REPLACEMENT_CHARACTER == 65533
VK_F10 == 121
VK_LSHIFT == 160
VK_RSHIFT == 161
VK_A == 65
SET_INPUT_WINDOW_KEY == "F10"

Pressed == "Pressed"
Released == "Released"

KeyEvent(sc, ks) == [type |-> "Key", scancode |-> sc, key_state |-> ks]
CharEvent(c) == [type |-> "Char", c |-> c]

(***************************************************************************)
(* keycode_to_key: the match on the named virtual-key codes, then the      *)
(* match on the code truncated to u8 for digits and letters.               *)
(***************************************************************************)
Digits == << "Num0", "Num1", "Num2", "Num3", "Num4", "Num5", "Num6", "Num7",
             "Num8", "Num9" >>
Letters == << "A", "B", "C", "D", "E", "F", "G", "H", "I", "J", "K", "L", "M",
              "N", "O", "P", "Q", "R", "S", "T", "U", "V", "W", "X", "Y", "Z" >>

NamedKey(keycode) ==
    CASE keycode = 112 -> Some("F1")
      [] keycode = 113 -> Some("F2")
      [] keycode = 114 -> Some("F3")
      [] keycode = 115 -> Some("F4")
      [] keycode = 116 -> Some("F5")
      [] keycode = 117 -> Some("F6")
      [] keycode = 118 -> Some("F7")
      [] keycode = 119 -> Some("F8")
      [] keycode = 120 -> Some("F9")
      [] keycode = VK_F10 -> Some("F10")
      [] keycode = 122 -> Some("F11")
      [] keycode = 123 -> Some("F12")
      [] keycode = 32 -> Some("Space")
      [] keycode = 162 -> Some("LeftControl")
      [] keycode = 163 -> Some("RightControl")
      [] keycode = VK_LSHIFT -> Some("LeftShift")
      [] keycode = VK_RSHIFT -> Some("RightShift")
      [] keycode = 164 -> Some("LeftAlt")
      [] keycode = 165 -> Some("RightAlt")
      [] keycode = 13 -> Some("Enter")
      [] keycode = 8 -> Some("Backspace")
      [] keycode = 9 -> Some("Tab")
      [] keycode = 27 -> Some("Escape")
      [] keycode = 33 -> Some("PageUp")
      [] keycode = 34 -> Some("PageDown")
      [] keycode = 35 -> Some("End")
      [] keycode = 36 -> Some("Home")
      [] keycode = 37 -> Some("Left")
      [] keycode = 39 -> Some("Right")
      [] keycode = 38 -> Some("Up")
      [] keycode = 40 -> Some("Down")
      [] keycode = 45 -> Some("Insert")
      [] keycode = 46 -> Some("Delete")
      [] keycode = 186 -> Some("Semicolon")
      [] keycode = 187 -> Some("Equals")
      [] keycode = 188 -> Some("Comma")
      [] keycode = 189 -> Some("Minus")
      [] keycode = 190 -> Some("Period")
      [] keycode = 191 -> Some("Slash")
      [] keycode = 192 -> Some("Grave")
      [] keycode = 219 -> Some("LeftBracket")
      [] keycode = 220 -> Some("Backslash")
      [] keycode = 221 -> Some("RightBracket")
      [] keycode = 222 -> Some("Apostrophe")
      [] OTHER -> None

keycode_to_key(keycode) ==
    LET key == NamedKey(keycode)
        b == keycode % 256               \* keycode as u8
    IN  IF key # None THEN key
        ELSE IF b \in 48 .. 57 THEN Some(Digits[b - 47])
        ELSE IF b \in 65 .. 90 THEN Some(Letters[b - 64])
        ELSE None

(***************************************************************************)
(* windows/mod.rs: VK_SCANCODE_MAPPING, the array of 256 entries built by  *)
(* position (entry 255 stays None), and its indexing by vkCode as usize.   *)
(***************************************************************************)
Pads == << "Pad0", "Pad1", "Pad2", "Pad3", "Pad4", "Pad5", "Pad6", "Pad7",
           "Pad8", "Pad9" >>
FKeys == << "F1", "F2", "F3", "F4", "F5", "F6", "F7", "F8", "F9", "F10", "F11",
            "F12" >>

VK_SCANCODE_MAPPING(i) ==
    CASE i = 8 -> Some("Backspace")
      [] i = 9 -> Some("Tab")
      [] i = 13 -> Some("Enter")
      [] i = 19 -> Some("Pause")
      [] i = 20 -> Some("CapsLock")
      [] i = 27 -> Some("Escape")
      [] i = 32 -> Some("Space")
      [] i = 33 -> Some("PageUp")
      [] i = 34 -> Some("PageDown")
      [] i = 35 -> Some("End")
      [] i = 36 -> Some("Home")
      [] i = 37 -> Some("Left")
      [] i = 38 -> Some("Up")
      [] i = 39 -> Some("Right")
      [] i = 40 -> Some("Down")
      [] i = 42 -> Some("PrintScreen")
      [] i = 45 -> Some("Insert")
      [] i = 46 -> Some("Delete")
      [] i = 106 -> Some("PadMultiply")
      [] i = 107 -> Some("PadPlus")
      [] i = 109 -> Some("PadMinus")
      [] i = 110 -> Some("PadDecimal")
      [] i = 111 -> Some("PadDivide")
      [] i = 144 -> Some("NumLock")
      [] i = 145 -> Some("ScrollLock")
      [] i = 160 -> Some("LeftShift")
      [] i = 161 -> Some("RightShift")
      [] i = 162 -> Some("LeftControl")
      [] i = 163 -> Some("RightControl")
      [] i = 164 -> Some("LeftAlt")
      [] i = 165 -> Some("RightAlt")
      [] i = 186 -> Some("Semicolon")
      [] i = 187 -> Some("Equals")
      [] i = 188 -> Some("Comma")
      [] i = 189 -> Some("Minus")
      [] i = 190 -> Some("Period")
      [] i = 191 -> Some("Slash")
      [] i = 192 -> Some("Grave")
      [] i = 219 -> Some("LeftBracket")
      [] i = 220 -> Some("Backslash")
      [] i = 221 -> Some("RightBracket")
      [] i = 222 -> Some("Apostrophe")
      [] i \in 48 .. 57 -> Some(Digits[i - 47])
      [] i \in 65 .. 90 -> Some(Letters[i - 64])
      [] i \in 96 .. 105 -> Some(Pads[i - 95])
      [] i \in 112 .. 123 -> Some(FKeys[i - 111])
      [] OTHER -> None

\* VK_SCANCODE_MAPPING[kb_hook.vkCode as usize]: [ok |-> the index is within
\* the array, v |-> the entry]; an index outside panics
TableIndex(vkCode) ==
    IF vkCode \in 0 .. 255 THEN [ok |-> TRUE, v |-> VK_SCANCODE_MAPPING(vkCode)]
    ELSE [ok |-> FALSE, v |-> None]

modifier_index(key) ==
    CASE key \in {"LeftShift", "RightShift"} -> Some(0)
      [] key \in {"LeftControl", "RightControl"} -> Some(1)
      [] key \in {"LeftAlt", "RightAlt"} -> Some(2)
      [] key = "CapsLock" -> Some(3)
      [] OTHER -> None

get_send_char(key) ==
    CASE key \in {"LeftShift", "RightShift"} -> Some(8679)
      [] key \in {"LeftControl", "RightControl"} -> Some(8963)
      [] key \in {"LeftAlt", "RightAlt"} -> Some(9095)
      [] key = "CapsLock" -> Some(8682)
      [] key = "Escape" -> Some(9099)
      [] key = "Tab" -> Some(8677)
      [] key = "Space" -> Some(9251)
      [] key = "Enter" -> Some(9166)
      [] key = "Backspace" -> Some(9003)
      [] key = "Delete" -> Some(8998)
      [] key = "Home" -> Some(8689)
      [] key = "End" -> Some(8690)
      [] key = "PageUp" -> Some(8670)
      [] key = "PageDown" -> Some(8671)
      [] key = "Up" -> Some(8593)
      [] key = "Down" -> Some(8595)
      [] key = "Left" -> Some(8592)
      [] key = "Right" -> Some(8594)
      [] OTHER -> None

(***************************************************************************)
(* char::is_control (general category Cc) and char::is_whitespace          *)
(* (property White_Space), as the callback applies them.                   *)
(***************************************************************************)
is_control(c) == c \in 0 .. 31 \/ c \in 127 .. 159

is_whitespace(c) ==
    \/ c \in 9 .. 13
    \/ c \in {32, 133, 160, 5760, 8232, 8233, 8239, 8287, 12288}
    \/ c \in 8192 .. 8202

(***************************************************************************)
(* BufferedUtf16Iterator.  An iterator is [buffer, decoding_buf]; a result *)
(* is Ok(char) or Err(DecodeUtf16Error{code}).                             *)
(***************************************************************************)
Ok(c) == [ok |-> TRUE, v |-> c]
Err(u) == [ok |-> FALSE, v |-> u]

BufNew == [buffer |-> << >>, decoding_buf |-> None]

push_u16(it, item) == [it EXCEPT !.buffer = Append(it.buffer, item)]

NotSurrogate(u) == u < 55296 \/ 57343 < u

NotTrailing(u2) == u2 < 56320 \/ u2 > 57343

\* (((u - 0xD800) as u32) << 10 | (u2 - 0xDC00) as u32) + 0x1_0000; the two
\* operands of | share no bit, so | adds
CombineSurrogates(u, u2) == ((u - 55296) * 1024 + (u2 - 56320)) + 65536

EofWaits(taken, u) ==
    [it |-> [taken EXCEPT !.decoding_buf = Some(u)], res |-> None]

\* eof: None => return Some(Err(DecodeUtf16Error { code: u }))
Eof(taken, u) == [it |-> taken, res |-> Some(Err(u))]

RewindDropped(u2) == None

\* self.decoding_buf = Some(u2): u2 is kept to be redecoded next time
Rewind(u2) == Some(u2)

\* One call of next(): [it |-> the iterator afterwards, res |-> Option<Item>]
BufNext(it) ==
    IF it.decoding_buf = None /\ it.buffer = << >>
    THEN [it |-> it, res |-> None]
    ELSE
      LET rewound == it.decoding_buf # None
          u == IF rewound THEN it.decoding_buf[1] ELSE Head(it.buffer)
          rest == IF rewound THEN it.buffer ELSE Tail(it.buffer)
          taken == [buffer |-> rest, decoding_buf |-> None]
      IN  IF NotSurrogate(u) THEN [it |-> taken, res |-> Some(Ok(u))]
          ELSE IF u >= 56320 THEN [it |-> taken, res |-> Some(Err(u))]
          ELSE IF rest = << >> THEN Eof(taken, u)
          ELSE LET u2 == Head(rest)
               IN  IF NotTrailing(u2)
                   THEN [it |-> [buffer |-> Tail(rest),
                                 decoding_buf |-> Rewind(u2)],
                         res |-> Some(Err(u))]
                   ELSE [it |-> [buffer |-> Tail(rest), decoding_buf |-> None],
                         res |-> Some(Ok(CombineSurrogates(u, u2)))]

ResultOrNul(result, default) == IF result.ok THEN result.v ELSE 0

\* Result::unwrap_or
unwrap_or(result, default) == IF result.ok THEN result.v ELSE default

SendAlways(c) == << c >>

\* The characters one drained result hands to tx.send
SendIfVisible(c) == IF ~is_control(c) /\ ~is_whitespace(c) THEN << c >> ELSE << >>

\* while let Some(result) = char_iter.next() { ... tx.send(c) ... }
RECURSIVE DrainChars(_, _)
DrainChars(it, out) ==
    LET r == BufNext(it)
    IN  IF r.res = None THEN [it |-> r.it, out |-> out]
        ELSE DrainChars(r.it,
               out \o SendIfVisible(unwrap_or(r.res[1], REPLACEMENT_CHARACTER)))

(***************************************************************************)
(* State.                                                                  *)
(*   input_window, modifier_state, char_iter : the callback's captures     *)
(*   chan        : the mpsc channel, oldest first; an item is [c, n], the  *)
(*                 character and its position in sent                      *)
(*   h_units     : code units of the running key-down notification that    *)
(*                 are still to be handed to the callback                  *)
(*   h_pc        : the hook thread, "run", or "panicked" once a tx.send    *)
(*                 found the channel closed                                *)
(*   clients     : the Vec behind the mutex (connection ids)               *)
(*   mutex       : "free", the thread holding the lock, or "poisoned":     *)
(*                 not held, and a thread panicked while holding it        *)
(*   b_pc, b_item, b_i : the broadcaster thread, the item it received      *)
(*                 ([c, n] and k, the number of items received so far)     *)
(*                 and its position in the drain_filter pass               *)
(*   a_pc, a_ws  : the acceptor thread and the websocket it holds          *)
(*   d_*         : the decoder harness of SpecDecoder                      *)
(*   w_iter, w_pc: the hook of windows/mod.rs: its char_iter, and "run" or *)
(*                 "panicked"                                              *)
(* Records of what happened (read by the properties only):                 *)
(*   nevents, nconn : notifications and connections so far                 *)
(*   sent        : every character handed to tx.send, in order             *)
(*   held, shown : keys down and not yet up; modifier slots whose glyph    *)
(*                 was sent since the slot's keys were last all up         *)
(*   last        : the latest callback invocation, Some([ev, fg, out]),    *)
(*                 None after a notification that invoked none             *)
(*   sink_log    : per connection, the items written to it                 *)
(*   failed_at   : per connection, the k of its failed write (0: none)     *)
(*   appended_at : per connection, None or Some(k at its push)             *)
(*   b_pass      : the running (or latest) drain_filter pass: the vector   *)
(*                 at its lock, the connections written, those that failed *)
(*   sent_at_lock: Len(sent) when the broadcaster last took the lock       *)
(*   w_last      : the latest notification of the hook of windows/mod.rs,  *)
(*                 Some([n, units, results, events]): its number,          *)
(*                 ToUnicode's units, the results of next() and the events *)
(*                 given to the callback, in order                         *)
(***************************************************************************)
VARIABLES input_window, modifier_state, char_iter, chan, h_units, h_pc,
          clients, mutex, b_pc, b_item, b_i, a_pc, a_ws,
          nevents, nconn, sent, held, shown, last,
          sink_log, failed_at, appended_at, b_pass, sent_at_lock,
          d_mode, d_input, d_orig, d_it, d_out, d_drained,
          w_iter, w_pc, w_last

hook_vars == << input_window, modifier_state, char_iter, chan, h_units, h_pc,
                nevents, sent, held, shown, last >>
net_vars == << clients, mutex, b_pc, b_item, b_i, a_pc, a_ws, nconn,
               sink_log, failed_at, appended_at, b_pass, sent_at_lock >>
dec_vars == << d_mode, d_input, d_orig, d_it, d_out, d_drained >>
win_vars == << w_iter, w_pc, w_last >>
vars == << hook_vars, net_vars, dec_vars, win_vars >>

Sinks == 1 .. MaxSinks

Range(f) == {f[i] : i \in DOMAIN f}

(***************************************************************************)
(* The callback given to Hook::run_forever.                                *)
(***************************************************************************)
SetTargetOnce(iw, event, fg_window) ==
    IF iw = None /\ event.type = "Key"
                 /\ event.scancode = SET_INPUT_WINDOW_KEY
                 /\ event.key_state = Pressed
    THEN Some(fg_window) ELSE iw

\* rule 1: the hotkey press designates the foreground window
SetTarget(iw, event, fg_window) ==
    IF event.type = "Key" /\ event.scancode = SET_INPUT_WINDOW_KEY
                          /\ event.key_state = Pressed
    THEN Some(fg_window) ELSE iw

GateOnTargetSet(fg_window, iw) == iw # None

GateAlways(fg_window, iw) == TRUE

GateUnlessUnset(fg_window, iw) == iw = None \/ Some(fg_window) = iw

\* if Some(fg_window) == input_window
Gate(fg_window, iw) == Some(fg_window) = iw

ModifierSendAlways(prev_char, scancode) == get_send_char(scancode)

ModifierSendWhenPressed(prev_char, scancode) ==
    IF prev_char = Pressed THEN get_send_char(scancode) ELSE None

\* the modifier branch: a glyph only if the slot was Released
ModifierSend(prev_char, scancode) ==
    IF prev_char = Released THEN get_send_char(scancode) ELSE None

KeySendAlways(key_state, scancode) == get_send_char(scancode)

\* the other keys: else if key_state == KeyState::Pressed
KeySend(key_state, scancode) ==
    IF key_state = Pressed THEN get_send_char(scancode) ELSE None

\* One invocation: [iw, ms, it |-> the captures afterwards, out |-> the
\* characters sent, in order]
Callback(iw, ms, it, event, fg_window) ==
    LET iw1 == SetTarget(iw, event, fg_window)
    IN  IF ~Gate(fg_window, iw1)
        THEN [iw |-> iw1, ms |-> ms, it |-> it, out |-> << >>]
        ELSE IF event.type = "Char"
        THEN LET d == DrainChars(push_u16(it, event.c), << >>)
             IN  [iw |-> iw1, ms |-> ms, it |-> d.it, out |-> d.out]
        ELSE LET idx == modifier_index(event.scancode)
             IN  IF idx # None
                 THEN [iw |-> iw1,
                       ms |-> [ms EXCEPT ![idx[1]] = event.key_state],
                       it |-> it,
                       out |-> ModifierSend(ms[idx[1]], event.scancode)]
                 ELSE [iw |-> iw1, ms |-> ms, it |-> it,
                       out |-> KeySend(event.key_state, event.scancode)]

\* out as channel items, numbered from n + 1
RECURSIVE Stamp(_, _)
Stamp(out, n) ==
    IF out = << >> THEN << >>
    ELSE << [c |-> Head(out), n |-> n + 1] >> \o Stamp(Tail(out), n + 1)

HasRoomBounded(q) == Len(q) < 1

\* channel::<char>() is unbounded: tx.send never waits for room
HasRoom(q) == TRUE

\* tx.send of each item, in order
Send(q, items) == q \o items

\* rx lives in the broadcaster thread's closure and is dropped when that
\* thread panics
ReceiverAlive == b_pc \notin {"panicked", "lock_failed"}

\* The callback invoked on event with the foreground window fg_window;
\* tx.send(..).expect("channel to be open.") panics once rx is dropped
Invoke(event, fg_window) ==
    LET r == Callback(input_window, modifier_state, char_iter, event, fg_window)
    IN  /\ h_pc = "run"
        /\ r.out # << >> => HasRoom(chan)
        /\ input_window' = r.iw
        /\ modifier_state' = r.ms
        /\ char_iter' = r.it
        /\ IF r.out # << >> /\ ~ReceiverAlive
           THEN /\ h_pc' = "panicked"
                /\ last' = Some([ev |-> event, fg |-> fg_window, out |-> << >>])
                /\ UNCHANGED << chan, sent >>
           ELSE /\ chan' = Send(chan, Stamp(r.out, Len(sent)))
                /\ sent' = sent \o r.out
                /\ last' = Some([ev |-> event, fg |-> fg_window, out |-> r.out])
                /\ UNCHANGED h_pc

NotInvoked ==
    /\ h_pc = "run"
    /\ UNCHANGED << input_window, modifier_state, char_iter, chan, sent, h_pc >>
    /\ last' = None

\* The modifier slot of a virtual-key code, if any
SlotOf(vk) ==
    IF keycode_to_key(vk) = None THEN None
    ELSE modifier_index(keycode_to_key(vk)[1])

\* The held keys of modifier slot i
HeldOfSlot(keys, i) == {k \in keys : SlotOf(k) = Some(i)}

(***************************************************************************)
(* wh_keyboard_callback (main.rs), one notification of the OS.             *)
(***************************************************************************)
\* WM_KEYUP
HookKeyUpWith(vk, fg, maxev) ==
      /\ h_units = << >>
      /\ nevents < maxev
      /\ nevents' = nevents + 1
      /\ held' = held \ {vk}
      /\ shown' = {i \in shown : HeldOfSlot(held', i) # {}}
      /\ IF keycode_to_key(vk) # None
         THEN Invoke(KeyEvent(keycode_to_key(vk)[1], Released), fg)
         ELSE NotInvoked
      /\ UNCHANGED << h_units, net_vars, dec_vars, win_vars >>

HookKeyUp(vks, wins, maxev) ==
    \E vk \in vks \cap held, fg \in wins : HookKeyUpWith(vk, fg, maxev)

\* WM_KEYDOWN: the Key event; ToUnicode's n code units are then handed over
\* by HookChar, one callback invocation each
HookKeyDownWith(vk, fg, us, maxev) ==
      /\ h_units = << >>
      /\ nevents < maxev
      /\ nevents' = nevents + 1
      /\ held' = held \cup {vk}
      /\ IF keycode_to_key(vk) # None
         THEN Invoke(KeyEvent(keycode_to_key(vk)[1], Pressed), fg)
         ELSE NotInvoked
      /\ shown' = IF SlotOf(vk) # None /\ sent' # sent
                  THEN shown \cup {SlotOf(vk)[1]} ELSE shown
      /\ h_units' = us
      /\ UNCHANGED << net_vars, dec_vars, win_vars >>

HookKeyDown(vks, useqs, wins, maxev) ==
    \E vk \in vks, fg \in wins, us \in useqs :
      HookKeyDownWith(vk, fg, us, maxev)

\* for i in 0..n { callback(Event::Char(buffer[i])) }, one iteration
HookCharWith(fg) ==
    /\ h_units # << >>
    /\ Invoke(CharEvent(Head(h_units)), fg)
    /\ h_units' = Tail(h_units)
    /\ UNCHANGED << nevents, held, shown, net_vars, dec_vars, win_vars >>

HookChar(wins) == \E fg \in wins : HookCharWith(fg)

\* any other w_param: _ => ()
HookOther(maxev) ==
    /\ h_units = << >>
    /\ nevents < maxev
    /\ nevents' = nevents + 1
    /\ NotInvoked
    /\ UNCHANGED << h_units, held, shown, net_vars, dec_vars, win_vars >>

(***************************************************************************)
(* The broadcaster thread.                                                 *)
(***************************************************************************)
RecvNewest(q) == [item |-> q[Len(q)], rest |-> SubSeq(q, 1, Len(q) - 1)]

\* rx.recv(): the oldest item
Recv(q) == [item |-> Head(q), rest |-> Tail(q)]

LockAlways(m) == TRUE

\* Mutex::lock returns only when no thread holds the lock
CanLock(m) == m = "free"

DropOnSuccess(ok) == ok

\* the drain_filter predicate: Err(_) => true, Ok(()) => false
Drop(ok) == ~ok

RemoveAt(xs, i) == SubSeq(xs, 1, i - 1) \o SubSeq(xs, i + 1, Len(xs))

NextIndexAlways(i, dropped) == i + 1

\* drain_filter: a removed element's successor moves into its place
NextIndex(i, dropped) == IF dropped THEN i ELSE i + 1

BroadcasterRecv ==
    /\ b_pc = "recv"
    /\ chan # << >>
    /\ b_item' = [c |-> Recv(chan).item.c, n |-> Recv(chan).item.n,
                  k |-> b_item.k + 1]
    /\ chan' = Recv(chan).rest
    /\ b_pc' = "lock"
    /\ UNCHANGED << input_window, modifier_state, char_iter, h_units, h_pc,
                    nevents, sent, held, shown, last, clients, mutex, b_i,
                    a_pc, a_ws, nconn, sink_log, failed_at, appended_at,
                    b_pass, sent_at_lock, dec_vars, win_vars >>

BroadcasterLock ==
    /\ b_pc = "lock"
    /\ CanLock(mutex)
    /\ mutex' = "broadcaster"
    /\ b_pc' = "drain"
    /\ b_i' = 1
    /\ b_pass' = [snapshot |-> clients, written |-> << >>, failed |-> {}]
    /\ sent_at_lock' = Len(sent)
    /\ UNCHANGED << hook_vars, clients, b_item, a_pc, a_ws, nconn, sink_log,
                    failed_at, appended_at, dec_vars, win_vars >>

\* one call of the predicate: client.write_message(Text(c.to_string()))
BroadcasterWrite ==
    /\ b_pc = "drain"
    /\ b_i <= Len(clients)
    /\ \E ok \in BOOLEAN :
         LET s == clients[b_i]
         IN  /\ sink_log' = [sink_log EXCEPT ![s] = Append(@, b_item)]
             /\ failed_at' =
                  IF ok THEN failed_at ELSE [failed_at EXCEPT ![s] = b_item.k]
             /\ b_pass' = [b_pass EXCEPT
                             !.written = Append(@, s),
                             !.failed = IF ok THEN @ ELSE @ \cup {s}]
             /\ clients' = IF Drop(ok) THEN RemoveAt(clients, b_i) ELSE clients
             /\ b_i' = NextIndex(b_i, Drop(ok))
    /\ UNCHANGED << hook_vars, mutex, b_pc, b_item, a_pc, a_ws, nconn,
                    appended_at, sent_at_lock, dec_vars, win_vars >>

PassOverUnlessEmpty(i, xs) == i > Len(xs) /\ xs # << >>

\* drain_filter(..).for_each(..) returns once every element was visited
PassOver(i, xs) == i > Len(xs)

\* the pass is over: the guard is dropped, back to rx.recv()
BroadcasterUnlock ==
    /\ b_pc = "drain"
    /\ PassOver(b_i, clients)
    /\ mutex' = "free"
    /\ b_pc' = "recv"
    /\ UNCHANGED << hook_vars, clients, b_item, b_i, a_pc, a_ws, nconn,
                    sink_log, failed_at, appended_at, b_pass, sent_at_lock,
                    dec_vars, win_vars >>

(***************************************************************************)
(* The acceptor thread.                                                    *)
(***************************************************************************)
\* server.incoming() yields a stream; stream.unwrap() and
\* accept(..).unwrap() panic, ending the thread, when either failed
AcceptorAccept(maxconn) ==
    /\ a_pc = "incoming"
    /\ nconn < maxconn
    /\ nconn' = nconn + 1
    /\ \E ok \in BOOLEAN :
         IF ok THEN a_ws' = Some(nconn + 1) /\ a_pc' = "lock"
               ELSE a_ws' = None /\ a_pc' = "panicked"
    /\ UNCHANGED << hook_vars, clients, mutex, b_pc, b_item, b_i, sink_log,
                    failed_at, appended_at, b_pass, sent_at_lock, dec_vars,
                    win_vars >>

AcceptorLock ==
    /\ a_pc = "lock"
    /\ CanLock(mutex)
    /\ mutex' = "acceptor"
    /\ a_pc' = "push"
    /\ UNCHANGED << hook_vars, clients, b_pc, b_item, b_i, a_ws, nconn,
                    sink_log, failed_at, appended_at, b_pass, sent_at_lock,
                    dec_vars, win_vars >>

\* xs.push(websocket), and the guard is dropped
AcceptorPush ==
    /\ a_pc = "push"
    /\ clients' = Append(clients, a_ws[1])
    /\ appended_at' = [appended_at EXCEPT ![a_ws[1]] = Some(b_item.k)]
    /\ mutex' = "free"
    /\ a_ws' = None
    /\ a_pc' = "incoming"
    /\ UNCHANGED << hook_vars, b_pc, b_item, b_i, nconn, sink_log, failed_at,
                    b_pass, sent_at_lock, dec_vars, win_vars >>

(***************************************************************************)
(* A poisoned mutex.  The guard is held across write_message and across    *)
(* xs.push; a panic in either unwinds the thread, which drops the guard    *)
(* and poisons the mutex.  lock() then returns Err to the other thread,    *)
(* which prints "Poisoned lock" and panics in turn.                        *)
(***************************************************************************)
BroadcasterPanics ==
    /\ b_pc = "drain"
    /\ b_i <= Len(clients)
    /\ b_pc' = "panicked"
    /\ mutex' = "poisoned"
    /\ UNCHANGED << hook_vars, clients, b_item, b_i, a_pc, a_ws, nconn,
                    sink_log, failed_at, appended_at, b_pass, sent_at_lock,
                    dec_vars, win_vars >>

AcceptorPanics ==
    /\ a_pc = "push"
    /\ a_pc' = "panicked"
    /\ a_ws' = None
    /\ mutex' = "poisoned"
    /\ UNCHANGED << hook_vars, clients, b_pc, b_item, b_i, nconn, sink_log,
                    failed_at, appended_at, b_pass, sent_at_lock, dec_vars,
                    win_vars >>

\* Err(_) => { println!("Poisoned lock"); panic!(); } in the broadcaster
BroadcasterLockFails ==
    /\ b_pc = "lock"
    /\ mutex = "poisoned"
    /\ b_pc' = "lock_failed"
    /\ UNCHANGED << hook_vars, clients, mutex, b_item, b_i, a_pc, a_ws, nconn,
                    sink_log, failed_at, appended_at, b_pass, sent_at_lock,
                    dec_vars, win_vars >>

\* Err(_) => { println!("Poisoned lock"); panic!(); } in the acceptor
AcceptorLockFails ==
    /\ a_pc = "lock"
    /\ mutex = "poisoned"
    /\ a_pc' = "lock_failed"
    /\ a_ws' = None
    /\ UNCHANGED << hook_vars, clients, mutex, b_pc, b_item, b_i, nconn,
                    sink_log, failed_at, appended_at, b_pass, sent_at_lock,
                    dec_vars, win_vars >>

(***************************************************************************)
(* wh_keyboard_callback of windows/mod.rs, one notification of the OS.     *)
(* The hook owns the iterator and gives its callback Event::Char(char).    *)
(***************************************************************************)
\* for i in 0..n { hook.char_iter.push_u16(buffer[i]) }
RECURSIVE PushAll(_, _)
PushAll(it, us) ==
    IF us = << >> THEN it ELSE PushAll(push_u16(it, Head(us)), Tail(us))

\* while let Some(c) = hook.char_iter.next(): the results, in order
RECURSIVE DrainResults(_, _)
DrainResults(it, results) ==
    LET r == BufNext(it)
    IN  IF r.res = None THEN [it |-> r.it, results |-> results]
        ELSE DrainResults(r.it, Append(results, r.res[1]))

CharEventsReversed(results) ==
    [i \in DOMAIN results |->
       CharEvent(unwrap_or(results[Len(results) + 1 - i],
                           REPLACEMENT_CHARACTER))]

\* callback(Event::Char(c.unwrap_or(REPLACEMENT_CHARACTER))), per result
CharEvents(results) ==
    [i \in DOMAIN results |->
       CharEvent(unwrap_or(results[i], REPLACEMENT_CHARACTER))]

\* the Key event of a notification, if the table has an entry
WinKeyEvents(vk, ks) ==
    IF TableIndex(vk).v # None THEN << KeyEvent(TableIndex(vk).v[1], ks) >>
    ELSE << >>

WinPanic ==
    /\ w_pc' = "panicked"
    /\ w_last' = None
    /\ UNCHANGED w_iter

\* WM_KEYUP
WinKeyUp(vks, maxev) ==
    \E vk \in vks :
      /\ w_pc = "run"
      /\ nevents < maxev
      /\ nevents' = nevents + 1
      /\ IF ~TableIndex(vk).ok THEN WinPanic
         ELSE /\ w_last' = Some([n |-> nevents + 1,
                                 units |-> << >>, results |-> << >>,
                                 events |-> WinKeyEvents(vk, Released)])
              /\ UNCHANGED << w_iter, w_pc >>
      /\ UNCHANGED << input_window, modifier_state, char_iter, chan, h_units,
                      h_pc, sent, held, shown, last, net_vars, dec_vars >>

\* WM_KEYDOWN; us are the n units ToUnicode wrote (none: n is 0 or -1)
WinKeyDown(vks, useqs, maxev) ==
    \E vk \in vks, us \in useqs :
      /\ w_pc = "run"
      /\ nevents < maxev
      /\ nevents' = nevents + 1
      /\ IF ~TableIndex(vk).ok THEN WinPanic
         ELSE LET d == IF us = << >> THEN [it |-> w_iter, results |-> << >>]
                       ELSE DrainResults(PushAll(w_iter, us), << >>)
              IN  /\ w_iter' = d.it
                  /\ w_last' = Some([n |-> nevents + 1,
                                     units |-> us, results |-> d.results,
                                     events |-> WinKeyEvents(vk, Pressed)
                                                  \o CharEvents(d.results)])
                  /\ UNCHANGED w_pc
      /\ UNCHANGED << input_window, modifier_state, char_iter, chan, h_units,
                      h_pc, sent, held, shown, last, net_vars, dec_vars >>

(***************************************************************************)
(* The decoder on its own: the UTF-16 encoding of a sequence of scalar     *)
(* values (Scalars, encoded by Encode) is pushed and decoded               *)
(* either all units first (d_mode = "bulk", as windows/mod.rs does with    *)
(* the units of one ToUnicode call) or with a full drain after each push   *)
(* (d_mode = "each", as the Char arm of main.rs does).  In SpecUnits       *)
(* d_orig is any sequence of code units (UnitSeqs) and push_u16 and next   *)
(* are called in any order (d_mode = "free").                              *)
(***************************************************************************)
Scalars == {65536, 66560, 128512, 1114111}

\* The UTF-16 encoding of a scalar value >= 0x10000
ToSurrogates(c) ==
    << 55296 + ((c - 65536) \div 1024), 56320 + ((c - 65536) % 1024) >>

RECURSIVE Encode(_)
Encode(cs) == IF cs = << >> THEN << >> ELSE ToSurrogates(Head(cs)) \o Encode(Tail(cs))

ScalarSeqs == UNION {[1 .. n -> Scalars] : n \in 0 .. MaxPairs}

\* The code units a test of the decoder pushes: a non-surrogate, a leading
\* and a trailing surrogate
Units == {97, 55357, 56832}

UnitSeqs == UNION {[1 .. n -> Units] : n \in 0 .. MaxUnits}

DecPush ==
    /\ d_mode \in {"bulk", "each", "free"}
    /\ d_input # << >>
    /\ d_mode = "each" => d_drained
    /\ d_it' = push_u16(d_it, Head(d_input))
    /\ d_input' = Tail(d_input)
    /\ d_drained' = FALSE
    /\ UNCHANGED << hook_vars, net_vars, win_vars, d_mode, d_orig, d_out >>

DecNext ==
    /\ d_mode \in {"bulk", "each", "free"}
    /\ ~d_drained
    /\ d_mode = "bulk" => d_input = << >>
    /\ LET r == BufNext(d_it)
       IN  /\ d_it' = r.it
           /\ d_drained' = (r.res = None)
           /\ d_out' = IF r.res = None THEN d_out ELSE Append(d_out, r.res[1])
    /\ UNCHANGED << hook_vars, net_vars, win_vars, d_mode, d_input, d_orig >>

(***************************************************************************)
(* Initial states and specifications.                                      *)
(***************************************************************************)
InitSystem ==
    /\ input_window = None
    /\ modifier_state = [i \in 0 .. 3 |-> Released]
    /\ char_iter = BufNew
    /\ chan = << >>
    /\ h_units = << >>
    /\ h_pc = "run"
    /\ clients = << >>
    /\ mutex = "free"
    /\ b_pc = "recv"
    /\ b_item = [c |-> 0, n |-> 0, k |-> 0]
    /\ b_i = 1
    /\ a_pc = "incoming"
    /\ a_ws = None
    /\ nevents = 0
    /\ nconn = 0
    /\ sent = << >>
    /\ held = {}
    /\ shown = {}
    /\ last = None
    /\ sink_log = [s \in Sinks |-> << >>]
    /\ failed_at = [s \in Sinks |-> 0]
    /\ appended_at = [s \in Sinks |-> None]
    /\ b_pass = [snapshot |-> << >>, written |-> << >>, failed |-> {}]
    /\ sent_at_lock = 0
    /\ w_iter = BufNew
    /\ w_pc = "run"
    /\ w_last = None

Init ==
    /\ InitSystem
    /\ d_mode = "off"
    /\ d_input = << >>
    /\ d_orig = << >>
    /\ d_it = BufNew
    /\ d_out = << >>
    /\ d_drained = TRUE

InitDecoder ==
    /\ InitSystem
    /\ d_mode \in {"bulk", "each"}
    /\ d_orig \in ScalarSeqs
    /\ d_input = Encode(d_orig)
    /\ d_it = BufNew
    /\ d_out = << >>
    /\ d_drained = TRUE

InitUnits ==
    /\ InitSystem
    /\ d_mode = "free"
    /\ d_orig \in UnitSeqs
    /\ d_input = d_orig
    /\ d_it = BufNew
    /\ d_out = << >>
    /\ d_drained = TRUE

\* Inputs of the hook in each specification
HookVks == {VK_F10, VK_LSHIFT, VK_A}
HookUnitSeqs == {<< >>, << 97 >>, << 55357, 56832 >>}
KeyVks == {VK_F10, VK_LSHIFT, VK_RSHIFT}
NetVks == {VK_F10, VK_A}
NetUnitSeqs == {<< >>, << 97 >>}
NetWindows == {1}

\* SpecChars: the hotkey, and ToUnicode results with a letter, control
\* characters (line feed, delete), whitespace (line feed, space, no-break
\* space) and surrogates, paired and not, for the hook of main.rs and for
\* the hook of windows/mod.rs
CharVks == {VK_F10}
CharUnitSeqs == {<< >>, << 97 >>, << 10 >>, << 32 >>, << 127 >>, << 160 >>,
                 << 55357, 56832 >>, << 56832, 97 >>, << 55357, 97 >>,
                 << 55357 >>}
CharWindows == {1, 2}
WinVks == {VK_A, VK_LSHIFT}

\* SpecCodes: the key codes of F10 and A, and 0x141 and 0x130, whose low
\* bytes are the codes of A and 0
CodeVks == {VK_F10, VK_A, 321, 304}

\* SpecGlyphs: the hotkey, Space and Tab (keys with a glyph), A (a key
\* without) and Left Shift
VK_SPACE == 32
VK_TAB == 9
GlyphVks == {VK_F10, VK_SPACE, VK_TAB, VK_A, VK_LSHIFT}

\* SpecOrder: the hotkey and Space (a key with a glyph), with ToUnicode
\* results of no, one and two code units
OrderVks == {VK_F10, VK_SPACE}
OrderUnitSeqs == {<< >>, << 97 >>, << 97, 98 >>, << 55357, 56832 >>}

\* SpecCaps: the hotkey, Caps Lock, Left Shift and Escape
VK_CAPITAL == 20
VK_ESCAPE == 27
CapsVks == {VK_F10, VK_CAPITAL, VK_LSHIFT, VK_ESCAPE}

NextHook ==
    \/ HookKeyUp(HookVks, Windows, MaxEvents)
    \/ HookKeyDown(HookVks, HookUnitSeqs, Windows, MaxEvents)
    \/ HookChar(Windows)
    \/ HookOther(MaxEvents)

NextKeys ==
    \/ HookKeyUp(KeyVks, Windows, MaxKeyEvents)
    \/ HookKeyDown(KeyVks, {<< >>}, Windows, MaxKeyEvents)

NextDecoder == DecPush \/ DecNext

NextChars ==
    \/ HookKeyDown(CharVks, CharUnitSeqs, CharWindows, MaxCharEvents)
    \/ HookChar(CharWindows)
    \/ WinKeyUp(WinVks, MaxCharEvents)
    \/ WinKeyDown(WinVks, CharUnitSeqs, MaxCharEvents)

HookStep(maxev) ==
    \/ HookKeyUp(NetVks, NetWindows, maxev)
    \/ HookKeyDown(NetVks, NetUnitSeqs, NetWindows, maxev)
    \/ HookChar(NetWindows)
    \/ HookOther(maxev)

NextNet(maxev, maxconn) ==
    \/ HookStep(maxev)
    \/ BroadcasterRecv
    \/ BroadcasterLock
    \/ BroadcasterWrite
    \/ BroadcasterUnlock
    \/ AcceptorAccept(maxconn)
    \/ AcceptorLock
    \/ AcceptorPush

Next == NextNet(MaxNetEvents, MaxSinks)

NextStall == NextNet(MaxStallEvents, MaxStallSinks)

NextCodes ==
    \/ HookKeyUp(CodeVks, CharWindows, MaxCodeEvents)
    \/ HookKeyDown(CodeVks, {<< >>}, CharWindows, MaxCodeEvents)
    \/ WinKeyUp(CodeVks, MaxCodeEvents)
    \/ WinKeyDown(CodeVks, {<< >>}, MaxCodeEvents)

NextGlyphs ==
    \/ HookKeyUp(GlyphVks, CharWindows, MaxGlyphEvents)
    \/ HookKeyDown(GlyphVks, {<< >>}, CharWindows, MaxGlyphEvents)

NextLive == NextNet(MaxLiveEvents, MaxLiveSinks)

\* The broadcaster thread is scheduled, write_message returns, and the
\* acceptor, once it holds the lock, pushes and drops the guard
Fairness ==
    /\ WF_vars(BroadcasterRecv)
    /\ WF_vars(BroadcasterLock)
    /\ WF_vars(BroadcasterWrite)
    /\ WF_vars(BroadcasterUnlock)
    /\ WF_vars(AcceptorPush)

NextOrder ==
    \/ HookKeyUp(OrderVks, CharWindows, MaxOrderEvents)
    \/ HookKeyDown(OrderVks, OrderUnitSeqs, CharWindows, MaxOrderEvents)
    \/ HookChar(CharWindows)
    \/ HookOther(MaxOrderEvents)
    \/ WinKeyUp(OrderVks, MaxOrderEvents)
    \/ WinKeyDown(OrderVks, OrderUnitSeqs, MaxOrderEvents)

NextCaps ==
    \/ HookKeyUp(CapsVks, CharWindows, MaxCapsEvents)
    \/ HookKeyDown(CapsVks, {<< >>}, CharWindows, MaxCapsEvents)
    \/ WinKeyUp(CapsVks, MaxCapsEvents)
    \/ WinKeyDown(CapsVks, {<< >>}, MaxCapsEvents)

NextPoison ==
    \/ NextNet(MaxPoisonEvents, MaxPoisonSinks)
    \/ BroadcasterPanics
    \/ AcceptorPanics
    \/ BroadcasterLockFails
    \/ AcceptorLockFails

Spec == Init /\ [][Next]_vars
SpecHook == Init /\ [][NextHook]_vars
SpecKeys == Init /\ [][NextKeys]_vars
SpecDecoder == InitDecoder /\ [][NextDecoder]_vars
SpecStall == Init /\ [][NextStall]_vars
SpecUnits == InitUnits /\ [][NextDecoder]_vars
SpecChars == Init /\ [][NextChars]_vars
SpecPoison == Init /\ [][NextPoison]_vars
SpecCodes == Init /\ [][NextCodes]_vars
SpecGlyphs == Init /\ [][NextGlyphs]_vars
SpecLive == Init /\ [][NextLive]_vars /\ Fairness
SpecOrder == Init /\ [][NextOrder]_vars
SpecCaps == Init /\ [][NextCaps]_vars

(***************************************************************************)
(* Properties.                                                             *)
(***************************************************************************)
\* This step is a hook notification that invoked the callback (on last')
Invoked == (nevents' # nevents \/ h_units' # h_units) /\ last' # None

IsModifierKey(e, ks) ==
    e.type = "Key" /\ modifier_index(e.scancode) # None /\ e.key_state = ks

ShiftGlyph == get_send_char("LeftShift")

\* C1 (SpecHook): an event whose foreground window differs from
\* input_window, as it is after the hotkey rule was applied to that event,
\* sends no character
GatedEventsSendNothing ==
    (last # None /\ Some(last[1].fg) # input_window) => last[1].out = << >>

\* a Char event arrived in a window other than the one a hotkey press
\* designated, after characters had been sent
GatedCharWitness ==
    /\ last # None
    /\ last[1].ev.type = "Char"
    /\ input_window # None
    /\ Some(last[1].fg) # input_window
    /\ sent # << >>

\* C2 (SpecDecoder): once every unit of the encoding of d_orig was pushed
\* and the buffer drained, in either mode, the results are Ok of the
\* original scalar values, in order
RoundTrip ==
    (d_input = << >> /\ d_drained /\ d_mode \in {"bulk", "each"})
        => d_out = [i \in 1 .. Len(d_orig) |-> Ok(d_orig[i])]

\* C3 (SpecKeys): a Released event of a modifier key sends no character
ModifierReleaseIsSilent ==
    (last # None /\ IsModifierKey(last[1].ev, Released)) => last[1].out = << >>

\* C4 (SpecKeys): a key-down of a modifier whose slot is Pressed sends
\* nothing and leaves the slot Pressed; a key-down of a Shift key with all
\* slots Released and the target window in front sends the Shift glyph
EdgeTriggeredModifiers ==
    [][(Invoked /\ IsModifierKey(last'[1].ev, Pressed)) =>
         LET e == last'[1].ev
             i == modifier_index(e.scancode)[1]
         IN  /\ modifier_state[i] = Pressed =>
                  /\ last'[1].out = << >>
                  /\ sent' = sent
                  /\ modifier_state'[i] = Pressed
             /\ ( /\ \A j \in 0 .. 3 : modifier_state[j] = Released
                  /\ i = 0
                  /\ Some(last'[1].fg) = input_window' ) =>
                  /\ last'[1].out = ShiftGlyph
                  /\ sent' = sent \o ShiftGlyph
                  /\ modifier_state'[i] = Pressed]_vars

\* a repeated Shift key-down passed the gate and sent nothing
RepeatSuppressedWitness ==
    /\ last # None
    /\ IsModifierKey(last[1].ev, Pressed)
    /\ Some(last[1].fg) = input_window
    /\ last[1].out = << >>
    /\ modifier_state[0] = Pressed
    /\ sent = ShiftGlyph

\* C5 (SpecKeys): a key-down of a modifier key while a key of its slot is
\* held and the slot's glyph was sent during that hold sends nothing
HeldSlotNeverResends ==
    [][(Invoked /\ IsModifierKey(last'[1].ev, Pressed)) =>
         LET i == modifier_index(last'[1].ev.scancode)[1]
         IN  (HeldOfSlot(held, i) # {} /\ i \in shown) => last'[1].out = << >>]_vars

\* C6 (Spec): at the end of a drain_filter pass every client of the vector
\* as locked was written once, in order, the vector holds those whose write
\* succeeded, in order; a client whose write failed is not in the vector
\* and that write is the last one made to it
PerSinkFailureIsolation ==
    /\ (b_pc = "drain" /\ b_i > Len(clients)) =>
          /\ b_pass.written = b_pass.snapshot
          /\ clients = SelectSeq(b_pass.snapshot, LAMBDA s : s \notin b_pass.failed)
    /\ \A s \in Sinks : failed_at[s] # 0 =>
          /\ s \notin Range(clients)
          /\ sink_log[s][Len(sink_log[s])].k = failed_at[s]

\* two clients got one character, the write to one failed, and the other
\* got the next character too
SurvivorWitness ==
    \E s, t \in Sinks :
      /\ failed_at[s] # 0
      /\ failed_at[t] = 0
      /\ \E i \in DOMAIN sink_log[t] : sink_log[t][i].k = failed_at[s]
      /\ \E i \in DOMAIN sink_log[t] : sink_log[t][i].k > failed_at[s]
      /\ t \in Range(clients)

\* C7 (Spec): what was written to a client is a run of sent: each item is
\* the character sent at its position, and the positions are consecutive
BroadcastOrder ==
    \A s \in Sinks : \A i \in DOMAIN sink_log[s] :
      /\ sink_log[s][i].n \in DOMAIN sent
      /\ sink_log[s][i].c = sent[sink_log[s][i].n]
      /\ i > 1 => sink_log[s][i].n = sink_log[s][i - 1].n + 1

\* a client was written two characters while a third was queued
OrderWitness ==
    /\ \E s \in Sinks : Len(sink_log[s]) >= 2
    /\ chan # << >>

\* C8 (Spec): between deliveries, a pushed client none of whose writes
\* failed was written every item received after its push
LateSinkGetsAllLater ==
    b_pc = "recv" =>
      \A s \in Sinks : (appended_at[s] # None /\ failed_at[s] = 0) =>
        \A k \in (appended_at[s][1] + 1) .. b_item.k :
          \E i \in DOMAIN sink_log[s] : sink_log[s][i].k = k

\* a client pushed after the first item was received got a later one
LateSinkWitness ==
    /\ b_pc = "recv"
    /\ \E s \in Sinks :
         /\ appended_at[s] # None
         /\ appended_at[s][1] >= 1
         /\ failed_at[s] = 0
         /\ b_item.k > appended_at[s][1]
         /\ sink_log[s] # << >>

\* C9 (Spec): the broadcaster is in its pass only while it holds the lock,
\* the acceptor is at its push only while it holds the lock, and they are
\* never there together
MutualExclusion ==
    /\ ~(b_pc = "drain" /\ a_pc = "push")
    /\ b_pc = "drain" => mutex = "broadcaster"
    /\ a_pc = "push" => mutex = "acceptor"
    /\ mutex = "free" => (b_pc # "drain" /\ a_pc # "push")

\* the acceptor waits for the lock while the broadcaster has a write to do
ContentionWitness ==
    b_pc = "drain" /\ b_i <= Len(clients) /\ a_pc = "lock"

\* Every invocation the hook has to make is enabled, for every input
HookCanRun ==
    /\ h_units # << >> => \A fg \in NetWindows : ENABLED HookCharWith(fg)
    /\ (h_units = << >> /\ nevents < MaxStallEvents) =>
         /\ \A vk \in NetVks, fg \in NetWindows, us \in NetUnitSeqs :
              ENABLED HookKeyDownWith(vk, fg, us, MaxStallEvents)
         /\ \A vk \in NetVks \cap held, fg \in NetWindows :
              ENABLED HookKeyUpWith(vk, fg, MaxStallEvents)
         /\ ENABLED HookOther(MaxStallEvents)

\* C10 (SpecStall): whatever the broadcaster and the mutex are doing,
\* every invocation the hook has to make can be made, for every input, and
\* a hook step changes nothing of the broadcaster, acceptor, mutex or
\* clients
HookDecoupled ==
    /\ []HookCanRun
    /\ [][HookStep(MaxStallEvents) => UNCHANGED net_vars]_vars

\* a character was sent, and is still queued, while the broadcaster,
\* holding the lock, had a write still to make
StalledWriteWitness ==
    /\ mutex = "broadcaster"
    /\ b_pc = "drain"
    /\ b_i <= Len(clients)
    /\ Len(sent) > sent_at_lock
    /\ chan # << >>

\* The units of d_orig pushed so far
Pushed == SubSeq(d_orig, 1, Len(d_orig) - Len(d_input))

\* The units next() has still to examine, in the order it examines them
Examined(it) == it.decoding_buf \o it.buffer

\* The code units a result stands for
UnitsOf(res) ==
    IF res.ok /\ res.v >= 65536 THEN ToSurrogates(res.v) ELSE << res.v >>

RECURSIVE UnitsOfAll(_)
UnitsOfAll(results) ==
    IF results = << >> THEN << >>
    ELSE UnitsOf(Head(results)) \o UnitsOfAll(Tail(results))

IsLeading(u) == 55296 <= u /\ u < 56320

\* C11 (SpecUnits): whatever the order of push_u16 and next, the units of
\* the results so far followed by the units still to be examined are
\* the units pushed, each once and in order; and a call of next that finds
\* a leading surrogate followed by a unit that is not a trailing surrogate
\* returns Err of the leading unit alone and leaves the following unit
\* first to be examined, ahead of the queued ones, where the next call
\* decodes it as it would had it just been read from the queue
RewoundUnitIsKept ==
    /\ [](UnitsOfAll(d_out) \o Examined(d_it) = Pushed)
    /\ [][( /\ d_input' = d_input
            /\ Len(Examined(d_it)) >= 2
            /\ IsLeading(Examined(d_it)[1])
            /\ NotTrailing(Examined(d_it)[2]) ) =>
           LET fresh == BufNext([buffer |-> Tail(Examined(d_it)),
                                 decoding_buf |-> None])
               again == BufNext(d_it')
           IN  /\ d_out' = Append(d_out, Err(Examined(d_it)[1]))
               /\ Examined(d_it') = Tail(Examined(d_it))
               /\ again.res = fresh.res
               /\ Examined(again.it) = Examined(fresh.it)]_vars

\* a leading surrogate was followed by another one: Err of the first, and
\* the second, held over, paired with the trailing surrogate behind it
RewoundPairWitness ==
    /\ d_mode = "free"
    /\ Len(d_out) >= 2
    /\ d_out[1] = Err(55357)
    /\ d_out[2] = Ok(128512)
    /\ SubSeq(Pushed, 1, 3) = << 55357, 55357, 56832 >>

\* The Char events among the events given to the callback of windows/mod.rs
CharsOf(events) == SelectSeq(events, LAMBDA e : e.type = "Char")

\* C12 (SpecChars): a Char event of main.rs that passes the gate and
\* carries a surrogate unit, which next() can only turn into an invalid
\* result, sends exactly one U+FFFD; in windows/mod.rs the results of a
\* notification account for every unit ToUnicode wrote, and the callback
\* is given one Char event per result, in order, U+FFFD for an invalid one
InvalidResultsReplaced ==
    /\ ( /\ last # None
         /\ last[1].ev.type = "Char"
         /\ Some(last[1].fg) = input_window
         /\ ~NotSurrogate(last[1].ev.c) ) =>
           /\ last[1].out = << REPLACEMENT_CHARACTER >>
           /\ sent # << >>
           /\ sent[Len(sent)] = REPLACEMENT_CHARACTER
    /\ w_last # None =>
         LET r == w_last[1].results
             cs == CharsOf(w_last[1].events)
         IN  /\ UnitsOfAll(r) = w_last[1].units
             /\ Len(cs) = Len(r)
             /\ \A i \in DOMAIN r :
                  cs[i].c = IF r[i].ok THEN r[i].v ELSE REPLACEMENT_CHARACTER

\* in main.rs an unpaired trailing surrogate was replaced and the letter
\* after it sent; in windows/mod.rs a leading surrogate followed by a
\* letter gave U+FFFD and then the letter
ReplacedThenLetterWitness ==
    /\ sent = << REPLACEMENT_CHARACTER, 97 >>
    /\ w_last # None
    /\ w_last[1].results = << Err(55357), Ok(97) >>
    /\ CharsOf(w_last[1].events) =
         << CharEvent(REPLACEMENT_CHARACTER), CharEvent(97) >>

\* A code unit that is a character by itself, neither control nor whitespace
IsVisibleUnit(c) == NotSurrogate(c) /\ ~is_control(c) /\ ~is_whitespace(c)

\* C13 (SpecHook): once a hotkey press has set input_window, a Char event
\* carrying one visible code unit sends exactly that character, and queues
\* it last on the channel, when the foreground window is input_window,
\* and sends and queues nothing when it is another window
VisibleCharFollowsFocus ==
    [][( /\ Invoked
         /\ last'[1].ev.type = "Char"
         /\ IsVisibleUnit(last'[1].ev.c)
         /\ input_window # None ) =>
           /\ input_window' = input_window
           /\ IF last'[1].fg = input_window[1]
              THEN /\ last'[1].out = << last'[1].ev.c >>
                   /\ sent' = Append(sent, last'[1].ev.c)
                   /\ Len(chan') = Len(chan) + 1
                   /\ chan'[Len(chan')].c = last'[1].ev.c
              ELSE /\ last'[1].out = << >>
                   /\ sent' = sent
                   /\ chan' = chan]_vars

\* a letter typed in the target window was sent, and the same letter typed
\* in another window afterwards was not
FocusedThenUnfocusedCharWitness ==
    /\ sent = << 97 >>
    /\ last # None
    /\ last[1].ev = CharEvent(97)
    /\ input_window # None
    /\ Some(last[1].fg) # input_window
    /\ last[1].out = << >>

\* C14 (SpecChars): no character sent or queued is a control character or
\* whitespace, and a Char event whose unit is one sends nothing, whatever
\* the foreground window
ControlAndWhitespaceNeverSent ==
    /\ \A i \in DOMAIN sent : ~is_control(sent[i]) /\ ~is_whitespace(sent[i])
    /\ \A i \in DOMAIN chan : ~is_control(chan[i].c) /\ ~is_whitespace(chan[i].c)
    /\ ( /\ last # None
         /\ last[1].ev.type = "Char"
         /\ is_control(last[1].ev.c) \/ is_whitespace(last[1].ev.c) ) =>
           last[1].out = << >>

\* a space typed in the target window, after a letter that was sent
SpaceInTargetWitness ==
    /\ last # None
    /\ last[1].ev = CharEvent(32)
    /\ Some(last[1].fg) = input_window
    /\ sent = << 97 >>

\* A thread found the mutex poisoned and panicked
LockFailed == a_pc = "lock_failed" \/ b_pc = "lock_failed"

\* C15 (SpecPoison): once the broadcaster or the acceptor has failed to
\* take the poisoned lock, no thread takes a step: nothing changes
LockFailureEndsProcess == [][~LockFailed]_vars

\* The virtual-key codes keycode_to_key has an arm for: the named ones and
\* the codes of '0' .. '9' and 'A' .. 'Z'
IsKnownCode(vk) == NamedKey(vk) # None \/ vk \in 48 .. 57 \/ vk \in 65 .. 90

\* C16 (SpecCodes): the table lookup of windows/mod.rs never fails, and a
\* key-down whose code keycode_to_key has no arm for invokes no callback
UnknownCodesRejected ==
    /\ [](w_pc = "run")
    /\ [][\A vk \in CodeVks :
            (vk \notin held /\ held' = held \cup {vk} /\ ~IsKnownCode(vk))
               => last' = None]_vars

\* C17 (SpecHook): input_window starts unset; a callback invocation on a
\* Pressed event of the hotkey sets it to the foreground window of that
\* invocation, whatever it was; every other step leaves it as it is
LatestHotkeyPressWins ==
    /\ [](input_window = None \/ input_window[1] \in Windows)
    /\ [][IF Invoked /\ last'[1].ev = KeyEvent(SET_INPUT_WINDOW_KEY, Pressed)
          THEN input_window' = Some(last'[1].fg)
          ELSE input_window' = input_window]_vars

\* the hotkey was pressed in window 2 after a character had been sent,
\* that is, after an earlier press had set input_window
RetargetWitness ==
    /\ input_window = Some(2)
    /\ sent # << >>
    /\ last # None
    /\ last[1].ev = KeyEvent(SET_INPUT_WINDOW_KEY, Pressed)
    /\ last[1].fg = 2

\* C18 (SpecKeys): a callback invocation on a modifier key event, Pressed
\* or Released, whose foreground window is input_window sets the key's
\* slot of modifier_state to the event's state and leaves the other slots;
\* it sends the key's glyph, and nothing else, if the slot was Released
\* before, and sends nothing if the slot was Pressed
ModifierRule ==
    [][( /\ Invoked
         /\ last'[1].ev.type = "Key"
         /\ modifier_index(last'[1].ev.scancode) # None
         /\ Some(last'[1].fg) = input_window' ) =>
           LET e == last'[1].ev
               i == modifier_index(e.scancode)[1]
               glyph == IF modifier_state[i] = Released
                        THEN get_send_char(e.scancode) ELSE << >>
           IN  /\ modifier_state' = [modifier_state EXCEPT ![i] = e.key_state]
               /\ last'[1].out = glyph
               /\ sent' = sent \o glyph
               /\ chan' = chan \o Stamp(glyph, Len(sent))]_vars

\* Shift went down in the target window, sending its glyph, and up again,
\* sending nothing and leaving its slot Released
ModifierUpAfterDownWitness ==
    /\ last # None
    /\ IsModifierKey(last[1].ev, Released)
    /\ Some(last[1].fg) = input_window
    /\ last[1].out = << >>
    /\ modifier_state[0] = Released
    /\ sent = ShiftGlyph

\* The broadcaster has a write_message still to make in its pass
WritePending == b_pc = "drain" /\ b_i <= Len(clients)

\* C19 (Spec): a write to a client is made while no thread holds the
\* lock, and the acceptor, holding a handshaken websocket, can take the
\* lock while the broadcaster has a write still to make
NoWriteUnderLock ==
    /\ [][sink_log' # sink_log => mutex = "free"]_vars
    /\ []((a_pc = "lock" /\ WritePending) => CanLock(mutex))

\* C20 (SpecChars): between callback invocations of main.rs, and between
\* notifications of windows/mod.rs, the iterator holds no queued unit
\* and no held-over unit
BufferDrained ==
    /\ char_iter = BufNew
    /\ w_iter = BufNew

\* a leading surrogate, with nothing after it, was pushed by the Char arm
\* of main.rs and, in another notification, by the hook of windows/mod.rs
LoneLeadingPushedWitness ==
    /\ last # None
    /\ last[1].ev = CharEvent(55357)
    /\ Some(last[1].fg) = input_window
    /\ last[1].out = << REPLACEMENT_CHARACTER >>
    /\ w_last # None
    /\ w_last[1].units = << 55357 >>
    /\ w_last[1].results = << Err(55357) >>

\* C21 (SpecGlyphs): a callback invocation on a key event of a key without
\* a modifier slot leaves modifier_state as it is; if its foreground
\* window is input_window it sends the key's glyph, if the key has one,
\* when the event is Pressed, whether or not the key was already down,
\* and sends nothing when the event is Released; otherwise it sends
\* nothing
NonModifierKeyRule ==
    [][( /\ Invoked
         /\ last'[1].ev.type = "Key"
         /\ modifier_index(last'[1].ev.scancode) = None ) =>
           LET e == last'[1].ev
               glyph == IF /\ Some(last'[1].fg) = input_window'
                           /\ e.key_state = Pressed
                        THEN get_send_char(e.scancode) ELSE << >>
           IN  /\ modifier_state' = modifier_state
               /\ last'[1].out = glyph
               /\ sent' = sent \o glyph
               /\ chan' = chan \o Stamp(glyph, Len(sent))
               /\ e.scancode \in {SET_INPUT_WINDOW_KEY, "A"} =>
                    sent' = sent]_vars

\* Space, held down in the target window, repeated: its glyph was sent
\* twice, and nothing was sent for its release
RepeatedGlyphWitness ==
    /\ sent = get_send_char("Space") \o get_send_char("Space")
    /\ last # None
    /\ last[1].ev = KeyEvent("Space", Released)
    /\ Some(last[1].fg) = input_window
    /\ last[1].out = << >>

\* The broadcaster is at the end of its pass for the n-th character sent,
\* having written it to every client of the vector as locked
Delivered(n) ==
    /\ b_pc = "drain"
    /\ PassOver(b_i, clients)
    /\ b_item.n = n
    /\ b_item.c = sent[n]
    /\ b_pass.written = b_pass.snapshot

\* The n-th character was sent and the broadcaster has not received it
Waiting(n) == Len(sent) >= n /\ b_item.n < n

\* C22 (SpecLive): with the broadcaster scheduled and every write
\* returning, each character sent and not yet received is eventually
\* received and written to every client the vector held when the
\* broadcaster locked it, whether earlier writes failed and whether the
\* vector is empty
EventualDelivery ==
    \A n \in 1 .. MaxLiveEvents : Waiting(n) ~> Delivered(n)

\* the write of the first character failed, leaving the vector empty, and
\* the broadcaster has made its pass for the second one
ConsumesWhenEmptyWitness ==
    /\ Len(sent) >= 2
    /\ Delivered(2)
    /\ clients = << >>
    /\ \E s \in Sinks : failed_at[s] = 1

\* This step is a callback invocation on a modifier key event of slot i
\* whose foreground window is input_window
PassingModifierEvent(i) ==
    /\ Invoked
    /\ last'[1].ev.type = "Key"
    /\ modifier_index(last'[1].ev.scancode) = Some(i)
    /\ Some(last'[1].fg) = input_window'

\* C23 (SpecKeys): every slot of modifier_state starts Released; a step
\* changes a slot only by being a callback invocation on a modifier event
\* of that slot whose foreground window is input_window, and then to the
\* event's state; a modifier event in another window sends nothing
GatedModifierHasNoEffect ==
    /\ [][\A i \in 0 .. 3 :
            modifier_state'[i] = IF PassingModifierEvent(i)
                                 THEN last'[1].ev.key_state
                                 ELSE modifier_state[i]]_vars
    /\ [][( /\ Invoked
            /\ last'[1].ev.type = "Key"
            /\ modifier_index(last'[1].ev.scancode) # None
            /\ Some(last'[1].fg) # input_window' ) =>
              /\ modifier_state' = modifier_state
              /\ sent' = sent]_vars

\* Shift went down in the target window and up in another one: its slot
\* is still Pressed
GatedReleaseWitness ==
    /\ last # None
    /\ IsModifierKey(last[1].ev, Released)
    /\ input_window # None
    /\ Some(last[1].fg) # input_window
    /\ modifier_state[0] = Pressed
    /\ sent = ShiftGlyph

\* This step is the start of a notification of the hook of main.rs
MainNotification == nevents' # nevents /\ UNCHANGED win_vars

\* This step is one iteration of the Char loop of the hook of main.rs
MainCharStep == nevents' = nevents /\ h_units' # h_units

\* C24 (SpecOrder): in main.rs a notification starts only when the code
\* units of the one before were all handed over; it invokes the callback
\* at most once, on a Key event, before any unit of its own is handed
\* over; a key-up leaves no unit to hand over; the units are handed over
\* one by one from the first, each in a Char event, after the key's glyph
\* was sent.  In windows/mod.rs the events of a notification are at most
\* one Key event, first, then one Char event per result in the order of
\* the results, which stand for the units in order, and none for a key-up
KeyThenCharsInOrder ==
    /\ [][MainNotification =>
            /\ h_units = << >>
            /\ last' = None \/ last'[1].ev.type = "Key"
            /\ last' # None => sent' = sent \o last'[1].out
            /\ h_units' # << >> =>
                 (last' = None \/ last'[1].ev.key_state = Pressed)
            /\ ~(held \subseteq held') => h_units' = << >>]_vars
    /\ [][MainCharStep =>
            /\ h_units # << >>
            /\ h_units' = Tail(h_units)
            /\ last' # None
            /\ last'[1].ev = CharEvent(Head(h_units))
            /\ sent' = sent \o last'[1].out]_vars
    /\ [](w_last # None =>
            LET es == w_last[1].events
                r == w_last[1].results
                k == Len(es) - Len(r)
            IN  /\ k \in {0, 1}
                /\ k = 1 => es[1].type = "Key"
                /\ UnitsOfAll(r) = w_last[1].units
                /\ \A i \in DOMAIN r :
                     es[k + i] = CharEvent(IF r[i].ok THEN r[i].v
                                           ELSE REPLACEMENT_CHARACTER)
                /\ (k = 1 /\ es[1].key_state = Released) => r = << >>)

\* Space went down in the target window with the text "ab": its glyph,
\* then a, then b were sent; and in windows/mod.rs the callback was given
\* the Key event of Space, then a, then b
GlyphBeforeTextWitness ==
    /\ sent = get_send_char("Space") \o << 97, 98 >>
    /\ w_last # None
    /\ w_last[1].events = << KeyEvent("Space", Pressed), CharEvent(97),
                             CharEvent(98) >>

\* C25 (Spec): whatever became of the connections so far, the acceptor
\* thread is waiting for the next one, or is taking the lock or pushing
\* for one whose handshake succeeded
FailedAcceptIsIsolated == a_pc \in {"incoming", "lock", "push"}

\* A key with a modifier slot or a glyph
HasSlotOrGlyph(key) == modifier_index(key) # None \/ get_send_char(key) # None

\* C26 (SpecCaps): a key-down of main.rs whose code the table of
\* windows/mod.rs maps to a key with a modifier slot or a glyph invokes
\* the callback with a Key event of that key
MapperReachesEveryGlyph ==
    [][\A vk \in CapsVks :
         ( /\ vk \notin held
           /\ held' = held \cup {vk}
           /\ TableIndex(vk).v # None
           /\ HasSlotOrGlyph(TableIndex(vk).v[1]) ) =>
             /\ last' # None
             /\ last'[1].ev = KeyEvent(TableIndex(vk).v[1], Pressed)]_vars

=============================================================================
